---- MODULE Spec2Model ----
(***************************************************************************)
(* Energy-balance model of snowball_earth_model.py: the feedback           *)
(* functions, the energy balance, the iterative equilibrium solver         *)
(* find_equilibrium_temperature and the sweep of run_snowball_experiment.  *)
(*                                                                         *)
(* The program computes on IEEE doubles; the model computes the same       *)
(* formulas in decimal fixed point on integers:                            *)
(*   temperature        1 unit = 10^-4 K                                   *)
(*   fluxes, tolerance  1 unit = 10^-3 W m^-2 (rounded from 10^-5)         *)
(*   fractions          1 unit = 10^-8 (albedo, emissivity, tanh)          *)
(*   solar multiplier   1 unit = 10^-6                                     *)
(* Every product is taken in pieces of four decimal digits so that no      *)
(* intermediate value leaves the 32-bit integers of the model checker.     *)
(***************************************************************************)
EXTENDS Integers, Sequences, FiniteSets, TLC

\* ------------------------------------------------------------------------
\* Fixed-point arithmetic (the float operations of the source)

\* The unit of a fraction: 1.0
ONE == 10^8

Abs(x) == IF x < 0 THEN -x ELSE x

Max(a, b) == IF a >= b THEN a ELSE b

Min(a, b) == IF a <= b THEN a ELSE b

\* The four operations below are functions, not operators: a function is
\* applied to the values of its arguments, each evaluated once.

\* floor(a * b / 10^8), exact, for a signed a and b
MulFrac[a \in Int, b \in Int] ==
    LET ah == a \div 10^4
        al == a % 10^4
        bh == b \div 10^4
        bl == b % 10^4
    IN  ah * bh + ((ah * bl + al * bh + ((al * bl) \div 10^4)) \div 10^4)

\* k decimal digits of r / b, for 0 <= r < b
DivDigits[r \in Int, b \in Int, k \in Nat] ==
    IF k = 0 THEN 0
    ELSE ((r * 10) \div b) * 10^(k - 1) + DivDigits[(r * 10) % b, b, k - 1]

\* floor(a * 10^8 / b) to eight decimal digits, for 0 <= a and 0 < b
DivFrac(a, b) == (a \div b) * ONE + DivDigits[a % b, b, 8]

\* exp(-f) for a fraction 0 <= f < 1: the Taylor series in Horner form,
\* 1 - f/1 (1 - f/2 (1 - f/3 ( ... (1 - f/12))))
ExpNegSeries[f \in Int, k \in Nat] ==
    IF k > 12 THEN ONE
    ELSE ONE - (MulFrac[f, ExpNegSeries[f, k + 1]] \div k)

\* exp(-n) for a natural n, as a power of exp(-1) = 0.36787944 (below
\* 10^-8 from n = 19 on)
ExpNegInt[n \in Nat] ==
    IF n = 0 THEN ONE
    ELSE IF n >= 19 THEN 0
    ELSE MulFrac[36787944, ExpNegInt[n - 1]]

\* A clip that forgets the upper bound
ClipLowerOnly(x, lo, hi) == Max(x, lo)

\* numpy.clip(x, lo, hi) on a scalar
clip(x, lo, hi) == Min(Max(x, lo), hi)

\* ------------------------------------------------------------------------
\* Physical constants and parameters

\* 5.67e-8 W m^-2 K^-4, in units of 10^-10
STEFAN_BOLTZMANN == 567

\* W m^-2
SOLAR_CONSTANT == 1365

\* 273.15 K
T_freeze == 2731500

\* 0.6
alpha_ice == 60000000

\* 0.3
alpha_water == 30000000

\* 0.61
epsilon_base == 61000000

\* 0.0001 per K: 10^-8 per 10^-4 K
epsilon_sensitivity == 1

\* the bounds of the emissivity: 0.5 and 0.8
epsilon_min == 50000000

epsilon_max == 80000000

\* the bounds of the solver's temperature: 150 K and 400 K
T_min == 1500000

T_max == 4000000

\* ------------------------------------------------------------------------
\* Feedback functions and the energy balance

\* numpy.tanh((temperature - T_freeze) / 10) as a signed fraction:
\* tanh|x| = (1 - e^(-2|x|)) / (1 + e^(-2|x|)), with 2|x| = |T - T_freeze| / 5 K
\* split into its integer part n and its fractional part f (5 K = 50000
\* units of temperature; 1/50000 = 2000 units of a fraction)
tanh_arg(temperature) ==
    LET d == Abs(temperature - T_freeze)
        n == d \div 50000
        f == (d % 50000) * 2000
        t == MulFrac[ExpNegInt[n], ExpNegSeries[f, 1]]
        m == DivFrac(ONE - t, ONE + t)
    IN  IF temperature >= T_freeze THEN m ELSE -m

albedo(temperature) ==
    alpha_water
        + MulFrac[MulFrac[alpha_ice - alpha_water, ONE \div 2],
                  ONE - tanh_arg(temperature)]

\* An emissivity that is never clipped
GreenhouseUnclipped(temperature) ==
    epsilon_base + epsilon_sensitivity * (temperature - T_freeze)

greenhouse_effect(temperature) ==
    LET epsilon == epsilon_base + epsilon_sensitivity * (temperature - T_freeze)
    IN  clip(epsilon, epsilon_min, epsilon_max)

\* The balance in 10^-3 W m^-2, rounded from 10^-5 W m^-2. S, energy_in,
\* sigmaT4 = STEFAN_BOLTZMANN * T^4 and energy_out are in 10^-5 W m^-2.
energy_balance(temperature, solar_multiplier) ==
    LET S == (SOLAR_CONSTANT * solar_multiplier) \div 10
        alpha == albedo(temperature)
        epsilon == greenhouse_effect(temperature)
        energy_in == MulFrac[ONE - alpha, S] \div 4
        \* theta = T / 1000 K as a fraction; T^4 = 10^12 theta^4
        theta == temperature * 10
        theta2x10 == MulFrac[theta, theta * 10]
        theta4x100 == MulFrac[theta2x10, theta2x10]
        sigmaT4 == MulFrac[theta4x100, STEFAN_BOLTZMANN * 10^5]
        energy_out == MulFrac[epsilon, sigmaT4]
    IN  (energy_in - energy_out + 50) \div 100

\* ------------------------------------------------------------------------
\* The equilibrium solver, find_equilibrium_temperature

\* The bound of max_iterations in a direct call
MaxIter == 4

\* The bound of the number of calls made with the same arguments
MaxCalls == 2

\* The default max_iterations
DefaultMaxIterations == 1000

\* The default tolerance: 0.01 W m^-2
DefaultTolerance == 10

\* The time step factor 0.1: a balance of 10^-3 W m^-2 moves the
\* temperature by 10^-4 K
dt == 1

\* Initial temperatures of a direct call: 100 K, 230 K, 288 K, 450 K
InitialTemps == {1000000, 2300000, 2880000, 4500000}

\* Solar multipliers of a direct call: 0.85 and 1.0
Multipliers == {850000, 1000000}

\* Iteration budgets of a direct call, negative and zero included
Budgets == -1 .. MaxIter

\* Tolerances of a direct call: -1, 0, 0.01, 3 and 10^6 W m^-2
Tolerances == {-1000, 0, DefaultTolerance, 3000, 10^9}

VARIABLES
    pc,               \* "idle", "loop" (inside the for loop) or "done" (returned)
    initial_temp,     \* the arguments of the call
    solar_multiplier,
    max_iterations,
    tolerance,
    temperature,      \* the local variable, and the returned value when done
    i,                \* the loop variable of range(max_iterations)
    converged,        \* the returned flag
    checked,          \* history: the temperatures the balance was evaluated at
    updates,          \* history: the number of updates applied in this call
    returns,          \* history: the calls that have returned, with results
    spc,              \* run_snowball_experiment: its position
    budget,           \* the default max_iterations the sweep's calls run with
    idx,              \* the sweep's position in solar_multipliers
    T_warm,
    converged_warm,
    equilibrium_temps,
    reported,         \* the critical multipliers printed (none or one)
    ghT,              \* greenhouse_effect: a pair of inputs
    ghE               \* and the pair of results, once evaluated

solver_vars == <<pc, initial_temp, solar_multiplier, max_iterations, tolerance,
                 temperature, i, converged, checked, updates, returns>>

sweep_vars == <<spc, budget, idx, T_warm, converged_warm, equilibrium_temps,
                reported>>

gh_vars == <<ghT, ghE>>

vars == <<solver_vars, sweep_vars, gh_vars>>

\* A loop that runs once too often: range(max_iterations + 1)
LoopContinuesInclusive(k, n) == k <= n

\* for i in range(max_iterations): whether another iteration follows
LoopContinues(k, n) == k < n

\* A check that forgets the absolute value
ConvergesSigned(balance, tol) == balance < tol

\* if abs(balance) < tolerance
Converges(balance, tol) == Abs(balance) < tol

\* temperature += dt * balance; temperature = np.clip(temperature, 150, 400)
Update(T, balance) == clip(T + dt * balance, T_min, T_max)

\* An entry that keeps the temperature the call before left behind
StartStale(it, sm, mi, tol) ==
    /\ initial_temp' = it
    /\ solar_multiplier' = sm
    /\ max_iterations' = mi
    /\ tolerance' = tol
    /\ temperature' = IF pc = "done" THEN temperature ELSE it
    /\ i' = 0
    /\ converged' = FALSE
    /\ checked' = <<>>
    /\ updates' = 0
    /\ pc' = "loop"

\* The entry of a call: the arguments are bound, temperature = initial_temp
Start(it, sm, mi, tol) ==
    /\ initial_temp' = it
    /\ solar_multiplier' = sm
    /\ max_iterations' = mi
    /\ tolerance' = tol
    /\ temperature' = it
    /\ i' = 0
    /\ converged' = FALSE
    /\ checked' = <<>>
    /\ updates' = 0
    /\ pc' = "loop"

\* A return that clamps the temperature on the way out
ReturnClamped(flag) ==
    /\ pc' = "done"
    /\ converged' = flag
    /\ temperature' = clip(temperature, T_min, T_max)
    /\ returns' = Append(returns,
                         [initial_temp |-> initial_temp,
                          solar_multiplier |-> solar_multiplier,
                          max_iterations |-> max_iterations,
                          tolerance |-> tolerance,
                          temperature |-> clip(temperature, T_min, T_max),
                          converged |-> flag])
    /\ UNCHANGED <<initial_temp, solar_multiplier, max_iterations, tolerance,
                   i, updates>>

\* return temperature, flag
Return(flag) ==
    /\ pc' = "done"
    /\ converged' = flag
    /\ returns' = Append(returns,
                         [initial_temp |-> initial_temp,
                          solar_multiplier |-> solar_multiplier,
                          max_iterations |-> max_iterations,
                          tolerance |-> tolerance,
                          temperature |-> temperature,
                          converged |-> flag])
    /\ UNCHANGED <<initial_temp, solar_multiplier, max_iterations, tolerance,
                   temperature, i, updates>>

\* A caller calls the solver with fresh arguments.
Call(it, sm, mi, tol) ==
    /\ spc = "off"
    /\ pc \in {"idle", "done"}
    /\ Start(it, sm, mi, tol)
    /\ returns' = <<>>
    /\ UNCHANGED <<sweep_vars, gh_vars>>

\* A caller calls the solver again with the arguments of the last call.
Recall ==
    /\ spc = "off"
    /\ pc = "done"
    /\ Len(returns) < MaxCalls
    /\ Start(initial_temp, solar_multiplier, max_iterations, tolerance)
    /\ UNCHANGED <<returns, sweep_vars, gh_vars>>

\* One iteration of the loop: the balance, the convergence check, the update
Step ==
    /\ pc = "loop"
    /\ LoopContinues(i, max_iterations)
    /\ LET balance == energy_balance(temperature, solar_multiplier)
       IN  /\ checked' = Append(checked, temperature)
           /\ IF Converges(balance, tolerance)
              THEN Return(TRUE)
              ELSE /\ temperature' = Update(temperature, balance)
                   /\ i' = i + 1
                   /\ updates' = updates + 1
                   /\ UNCHANGED <<pc, converged, returns, initial_temp,
                                  solar_multiplier, max_iterations, tolerance>>
    /\ UNCHANGED <<sweep_vars, gh_vars>>

\* The loop is exhausted: return temperature, False
Exhaust ==
    /\ pc = "loop"
    /\ ~LoopContinues(i, max_iterations)
    /\ Return(FALSE)
    /\ UNCHANGED <<checked, sweep_vars, gh_vars>>

SolverIdle ==
    /\ pc = "idle"
    /\ initial_temp = 2880000
    /\ solar_multiplier = 1000000
    /\ max_iterations = DefaultMaxIterations
    /\ tolerance = DefaultTolerance
    /\ temperature = 2880000
    /\ i = 0
    /\ converged = FALSE
    /\ checked = <<>>
    /\ updates = 0
    /\ returns = <<>>

SweepOff ==
    /\ spc = "off"
    /\ budget = DefaultMaxIterations
    /\ idx = 0
    /\ T_warm = 0
    /\ converged_warm = FALSE
    /\ equilibrium_temps = <<>>
    /\ reported = <<>>

GHOff ==
    /\ ghT = <<T_freeze, T_freeze>>
    /\ ghE = <<>>

Init == SolverIdle /\ SweepOff /\ GHOff

Next ==
    \/ \E it \in InitialTemps, sm \in Multipliers, mi \in Budgets,
          tol \in Tolerances : Call(it, sm, mi, tol)
    \/ Recall
    \/ Step
    \/ Exhaust

Spec == Init /\ [][Next]_vars

\* The loop of a call runs on: the interpreter executes the next statement.
FairSpec == Spec /\ WF_vars(Step) /\ WF_vars(Exhaust)

\* ------------------------------------------------------------------------
\* The sweep of run_snowball_experiment

\* np.linspace(0.85, 1.05, 20)
SweepPoints == 20

SweepLow == 850000

SweepHigh == 1050000

solar_multipliers ==
    [k \in 1 .. SweepPoints |->
        SweepLow + ((SweepHigh - SweepLow) * (k - 1)) \div (SweepPoints - 1)]

\* The warm and the cold initial condition: 288 K and 230 K
WarmSeed == 2880000

ColdSeed == 2300000

\* 273.15 K, the freezing point the series is compared with
FreezingPoint == 2731500

\* Reduced iteration budgets the sweep is checked under as well: with the
\* default budget of 1000 every warm run converges, and the cold and the
\* missing branch of the choice are never taken.
SweepBudgetMid == 40

SweepBudgetLow == 20

SweepBudgets == {DefaultMaxIterations, SweepBudgetMid, SweepBudgetLow}

\* An element of equilibrium_temps: a float, or np.nan
Num(t) == [nan |-> FALSE, v |-> t]

NaN == [nan |-> TRUE, v |-> 0]

\* A comparison that takes nan for a small number
LessThanNanSmall(x, bound) == x.nan \/ x.v < bound

\* x < bound on floats: false when x is nan
LessThan(x, bound) == ~x.nan /\ x.v < bound

\* A choice that prefers the cold run
ChosenColdFirst(Tw, cw, Tc, cc) ==
    IF cc THEN Num(Tc) ELSE IF cw THEN Num(Tw) ELSE NaN

\* The temperature that converged, the warm one preferred, else nan
Chosen(Tw, cw, Tc, cc) ==
    IF cw THEN Num(Tw) ELSE IF cc THEN Num(Tc) ELSE NaN

\* np.array(equilibrium_temps) < 273.15
below_freezing(temps) ==
    [k \in 1 .. Len(temps) |-> LessThan(temps[k], FreezingPoint)]

\* np.where(below)[0][0]: the first index that is true
FirstIndex(below) ==
    CHOOSE k \in DOMAIN below : below[k] /\ \A j \in 1 .. k - 1 : ~below[j]

\* The critical multiplier printed, if any
Critical(temps) ==
    LET below == below_freezing(temps)
    IN  IF \E k \in DOMAIN below : below[k]
        THEN <<solar_multipliers[FirstIndex(below)]>>
        ELSE <<>>

\* for solar_mult in solar_multipliers: the warm call
SweepWarm ==
    /\ spc = "for"
    /\ idx < SweepPoints
    /\ Start(WarmSeed, solar_multipliers[idx + 1], budget, DefaultTolerance)
    /\ spc' = "warm"
    /\ UNCHANGED <<returns, budget, idx, T_warm, converged_warm,
                   equilibrium_temps, reported, gh_vars>>

\* The warm call has returned: its result is kept, the cold call is made
SweepCold ==
    /\ spc = "warm"
    /\ pc = "done"
    /\ T_warm' = temperature
    /\ converged_warm' = converged
    /\ Start(ColdSeed, solar_multipliers[idx + 1], budget, DefaultTolerance)
    /\ spc' = "cold"
    /\ UNCHANGED <<returns, budget, idx, equilibrium_temps, reported, gh_vars>>

\* The cold call has returned: the data point is appended
SweepAppend ==
    /\ spc = "cold"
    /\ pc = "done"
    /\ equilibrium_temps' =
          Append(equilibrium_temps,
                 Chosen(T_warm, converged_warm, temperature, converged))
    /\ idx' = idx + 1
    /\ spc' = "for"
    /\ UNCHANGED <<solver_vars, budget, T_warm, converged_warm, reported,
                   gh_vars>>

\* After the loop: the critical solar multiplier is looked up and printed
SweepReport ==
    /\ spc = "for"
    /\ idx = SweepPoints
    /\ reported' = Critical(equilibrium_temps)
    /\ spc' = "end"
    /\ UNCHANGED <<solver_vars, budget, idx, T_warm, converged_warm,
                   equilibrium_temps, gh_vars>>

InitSweep ==
    /\ SolverIdle
    /\ spc = "for"
    /\ budget \in SweepBudgets
    /\ idx = 0
    /\ T_warm = 0
    /\ converged_warm = FALSE
    /\ equilibrium_temps = <<>>
    /\ reported = <<>>
    /\ GHOff

NextSweep ==
    \/ SweepWarm
    \/ SweepCold
    \/ SweepAppend
    \/ SweepReport
    \/ Step
    \/ Exhaust

SpecSweep == InitSweep /\ [][NextSweep]_vars

\* ------------------------------------------------------------------------
\* greenhouse_effect as a function of the temperature alone

\* The bound of the grid of temperatures: steps of 50 K on either side of 0 K
GHSpan == 50

\* Where the unclipped emissivity reaches 0.5 and 0.8
ClipLow == T_freeze - (epsilon_base - epsilon_min) \div epsilon_sensitivity

ClipHigh == T_freeze + (epsilon_max - epsilon_base) \div epsilon_sensitivity

\* The temperatures greenhouse_effect is applied to: the grid, the solver's
\* bounds, 173 K and 973 K, and the neighbours of the two clip points
GHTemps ==
    {k * 500000 : k \in -GHSpan .. GHSpan}
        \cup {T_min, T_max, T_freeze, 1730000, 9730000}
        \cup {ClipLow + d : d \in -1 .. 1}
        \cup {ClipHigh + d : d \in -1 .. 1}

InitGH ==
    /\ SolverIdle
    /\ SweepOff
    /\ ghT \in GHTemps \X GHTemps
    /\ ghE = <<>>

GHEval ==
    /\ ghE = <<>>
    /\ ghE' = <<greenhouse_effect(ghT[1]), greenhouse_effect(ghT[2])>>
    /\ UNCHANGED <<ghT, solver_vars, sweep_vars>>

NextGH == GHEval

SpecGH == InitGH /\ [][NextGH]_vars

\* ------------------------------------------------------------------------
\* Properties of the solver

\* An iteration budget of zero or less is an empty budget.
Budget0 == Max(0, max_iterations)

Within(T) == Abs(energy_balance(T, solar_multiplier)) < tolerance

\* C1: every returned temperature lies within [150 K, 400 K], whatever the
\* inputs and whether converged or not.
C1_ReturnedInRange ==
    pc = "done" => (T_min <= temperature /\ temperature <= T_max)

\* C2: a call with a zero or negative tolerance fails fast: it evaluates
\* nothing and returns no (temperature, converged) pair.
C2_FailFast ==
    (pc # "idle" /\ tolerance <= 0) => (checked = <<>> /\ pc # "done")

\* C3: when converged is returned true, the returned temperature is the one
\* the successful check was made at: it satisfies the tolerance and is the
\* last temperature evaluated, with no update after it; and an initial_temp
\* that satisfies the tolerance is returned as (initial_temp, true) when
\* max_iterations >= 1.
C3_ConvergedAtChecked ==
    pc = "done" =>
        /\ converged =>
              /\ Within(temperature)
              /\ checked # <<>>
              /\ temperature = checked[Len(checked)]
              /\ updates = Len(checked) - 1
        /\ (max_iterations >= 1 /\ Within(initial_temp)) =>
              (converged /\ temperature = initial_temp)

\* C3's case: a run that converged after at least one update.
C3_Witness ==
    pc = "done" /\ converged /\ updates >= 1 /\ temperature # initial_temp

\* C4 as stated: when converged is returned false, exactly max_iterations
\* updates were applied and no temperature of the run, the returned one
\* included, satisfies the tolerance.
C4_NoTemperatureWithin ==
    (pc = "done" /\ ~converged) =>
        /\ updates = Budget0
        /\ \A k \in 1 .. Len(checked) : ~Within(checked[k])
        /\ ~Within(temperature)

\* C4 as amended: when converged is returned false, exactly max_iterations
\* updates were applied (none for max_iterations <= 0), the balance was
\* evaluated once before each, and no temperature it was evaluated at
\* satisfies the tolerance; the returned temperature is the result of the
\* last update and was never evaluated.
C4_NoCheckedWithin ==
    (pc = "done" /\ ~converged) =>
        /\ updates = Budget0
        /\ Len(checked) = Budget0
        /\ \A k \in 1 .. Len(checked) : ~Within(checked[k])
        /\ (checked # <<>> =>
              temperature =
                 Update(checked[Len(checked)],
                        energy_balance(checked[Len(checked)], solar_multiplier)))

\* C4's case: the budget is exhausted after updates, and the returned
\* temperature, never checked, satisfies the tolerance.
C4_Witness ==
    pc = "done" /\ ~converged /\ updates >= 2 /\ Within(temperature)

SameArguments(a, b) ==
    /\ a.initial_temp = b.initial_temp
    /\ a.solar_multiplier = b.solar_multiplier
    /\ a.max_iterations = b.max_iterations
    /\ a.tolerance = b.tolerance

C10_Counts ==
    /\ Len(checked) <= Budget0
    /\ \A k \in 1 .. Len(checked) - 1 :
          checked[k + 1] =
             Update(checked[k], energy_balance(checked[k], solar_multiplier))
    /\ (pc = "done" /\ tolerance <= 0) =>
          (~converged /\ Len(checked) = Budget0 /\ updates = Budget0)
    /\ (pc = "done" /\ max_iterations <= 0) =>
          (~converged /\ temperature = initial_temp /\ checked = <<>>)

\* C10: every run of the solver terminates, within the counts above.
C10_Terminates == [](C10_Counts) /\ ((pc = "loop") ~> (pc = "done"))

\* C10's case: a tolerance that cannot be satisfied, the whole budget spent.
C10_Witness ==
    /\ pc = "done"
    /\ tolerance <= 0
    /\ max_iterations >= 2
    /\ Len(checked) = max_iterations

\* ------------------------------------------------------------------------
\* Properties of the sweep

\* The calls of the sweep that have returned for the k-th multiplier
WarmRun(k) == returns[2 * k - 1]

ColdRun(k) == returns[2 * k]

\* C5: the data points are recorded one per multiplier, in the order of
\* the multipliers; each is the temperature of the warm run (288 K) if that
\* run converged, else that of the cold run (230 K) if that run converged,
\* else missing; no temperature of a run that did not converge is recorded.
C5_DataPoints ==
    /\ Len(equilibrium_temps) = idx
    /\ idx <= SweepPoints
    /\ spc = "end" => idx = SweepPoints
    /\ \A k \in 1 .. Len(equilibrium_temps) :
          LET w == WarmRun(k)
              c == ColdRun(k)
              e == equilibrium_temps[k]
          IN  /\ w.initial_temp = WarmSeed
              /\ c.initial_temp = ColdSeed
              /\ w.solar_multiplier = solar_multipliers[k]
              /\ c.solar_multiplier = solar_multipliers[k]
              /\ w.converged => e = [nan |-> FALSE, v |-> w.temperature]
              /\ (~w.converged /\ c.converged) =>
                    e = [nan |-> FALSE, v |-> c.temperature]
              /\ (~w.converged /\ ~c.converged) => e.nan

\* C5's case: the sweep is complete, with a point taken from the cold run
\* because the warm run did not converge, and a point where both runs
\* converged to different temperatures and the warm one was taken.
C5_Witness ==
    /\ spc = "end"
    /\ \E k \in 1 .. SweepPoints :
          /\ ~WarmRun(k).converged
          /\ ColdRun(k).converged
          /\ ~equilibrium_temps[k].nan
    /\ \E k \in 1 .. SweepPoints :
          /\ WarmRun(k).converged
          /\ ColdRun(k).converged
          /\ WarmRun(k).temperature # ColdRun(k).temperature

\* The indices of the numeric data points below the freezing point
BelowSet ==
    {k \in 1 .. Len(equilibrium_temps) :
        /\ ~equilibrium_temps[k].nan
        /\ equilibrium_temps[k].v < FreezingPoint}

\* C6: the multipliers increase; the threshold reported is the lowest
\* multiplier whose data point is a number below 273.15 K, a missing point
\* never counts as below freezing, and no threshold is reported when no
\* data point is below freezing (nor before the sweep has ended).
C6_CriticalThreshold ==
    /\ \A j \in 1 .. SweepPoints, k \in 1 .. SweepPoints :
          j < k => solar_multipliers[j] < solar_multipliers[k]
    /\ spc # "end" => reported = <<>>
    /\ spc = "end" =>
          IF BelowSet = {}
          THEN reported = <<>>
          ELSE /\ Len(reported) = 1
               /\ \E k \in BelowSet : reported[1] = solar_multipliers[k]
               /\ \A k \in BelowSet : reported[1] <= solar_multipliers[k]

\* C6's case: a sweep with missing data points and no point below
\* freezing has ended, and no threshold was reported.
C6_Witness ==
    /\ spc = "end"
    /\ reported = <<>>
    /\ \E k \in 1 .. SweepPoints : equilibrium_temps[k].nan
    /\ \E k \in 1 .. SweepPoints : ~equilibrium_temps[k].nan

\* ------------------------------------------------------------------------
\* Properties of greenhouse_effect

\* C7: greenhouse_effect is non-decreasing in T and its result lies within
\* [0.5, 0.8] for every T, far outside [150 K, 400 K] included.
C7_MonotoneBounded ==
    ghE # <<>> =>
        /\ \A k \in 1 .. 2 : epsilon_min <= ghE[k] /\ ghE[k] <= epsilon_max
        /\ ghT[1] <= ghT[2] => ghE[1] <= ghE[2]

\* C7's case: a temperature below and one above the solver's range, the
\* second far enough for the upper clip to bind.
C7_Witness ==
    /\ ghE # <<>>
    /\ ghT[1] < T_min
    /\ ghT[2] > ClipHigh
    /\ ghE[1] < ghE[2]

\* C8 as stated: strictly increasing between 173 K and 973 K, and flat
\* outside that range, at 0.5 below and at 0.8 above.
C8_FlatOutside173To973 ==
    (ghE # <<>> /\ ghT[1] < ghT[2]) =>
        /\ (1730000 <= ghT[1] /\ ghT[2] <= 9730000) => ghE[1] < ghE[2]
        /\ ghT[2] <= 1730000 => (ghE[1] = epsilon_min /\ ghE[2] = epsilon_min)
        /\ ghT[1] >= 9730000 => (ghE[1] = epsilon_max /\ ghE[2] = epsilon_max)

\* C8 as amended: strictly increasing between -826.85 K and 2173.15 K,
\* where the unclipped emissivity is within [0.5, 0.8], and flat outside
\* that range, at 0.5 below and at 0.8 above.
C8_FlatOutsideClipPoints ==
    (ghE # <<>> /\ ghT[1] < ghT[2]) =>
        /\ (ClipLow <= ghT[1] /\ ghT[2] <= ClipHigh) => ghE[1] < ghE[2]
        /\ ghT[2] <= ClipLow => (ghE[1] = epsilon_min /\ ghE[2] = epsilon_min)
        /\ ghT[1] >= ClipHigh => (ghE[1] = epsilon_max /\ ghE[2] = epsilon_max)

\* C8's case: the emissivity still rises over the last step before the
\* upper clip point, 2173.15 K.
C8_Witness ==
    /\ ghE # <<>>
    /\ ghT[1] = ClipHigh - 1
    /\ ghT[2] = ClipHigh
    /\ ghE[1] < ghE[2]
    /\ ghE[2] = epsilon_max

====
